---- MODULE Spec2Model ----
(***************************************************************************)
(* A model of the HTML documenter of api-documenter:                       *)
(*   src/src/html/HtmlEmitter.ts          the HtmlNode builder             *)
(*   src/src/documenters/HtmlDocumenter.ts the page generator              *)
(*                                                                         *)
(* Text the program computes character by character (display names, file   *)
(* names) is a sequence of one-character strings; Str turns it into a      *)
(* string.  An API item is identified by its path from the ApiModel root:  *)
(* <<>> is the model, <<i>> the i-th package, <<i, 1>> its entry point,    *)
(* <<i, 1, k>> the k-th member of the entry point, and so on.              *)
(***************************************************************************)
EXTENDS Integers, Sequences, FiniteSets, TLC

VARIABLES
    apiModel,          \* HtmlDocumenter._apiModel: path -> ApiItem
    documenterConfig,  \* HtmlDocumenter._documenterConfig
    pc,                \* position of generateFiles
    stack,             \* the active _writeApiItemPage calls, innermost last
    folder,            \* the output folder: file name -> content
    fsLog,             \* the FileSystem calls made so far, in order
    pluginLoader,      \* PluginLoader: load calls and the feature it holds
    onFinishedCalls,   \* calls of markdownDocumenterFeature.onFinished
    warnings,          \* console.warn calls
    error,             \* the Error thrown out of generateFiles, "" if none
    call,              \* a helper called on its own: [fn, arguments]
    returned           \* what that call returned

vars == <<apiModel, documenterConfig, pc, stack, folder, fsLog, pluginLoader,
          onFinishedCalls, warnings, error, call, returned>>

(***************************************************************************)
(* Bounds of the inputs.                                                   *)
(***************************************************************************)
MaxMembers == 3        \* members of a package entry point (flat family)
MaxContainerMembers == 2   \* members of a class, interface, namespace, enum
MaxNesting == 1        \* namespaces between the package and the class
MaxPackages == 2       \* packages of a model (package family)

(***************************************************************************)
(* F applied to the values of its arguments, each evaluated once: how a    *)
(* function body uses the result of a call it made.                        *)
(***************************************************************************)
Bind1(F(_), v) == CHOOSE y \in {F(x) : x \in {v}} : TRUE
Bind2(F(_, _), v, w) == CHOOSE y \in {F(x, z) : x \in {v}, z \in {w}} : TRUE

(***************************************************************************)
(* Strings.                                                                *)
(***************************************************************************)
RECURSIVE Str(_)
Str(s) == IF s = <<>> THEN "" ELSE Head(s) \o Str(Tail(s))

Digits == <<"0", "1", "2", "3", "4", "5", "6", "7", "8", "9">>

\* `${n}` for a number n >= 0: its decimal digits
RECURSIVE ToDecimal(_)
ToDecimal(n) ==
    IF n < 10 THEN <<Digits[n + 1]>>
    ELSE Append(ToDecimal(n \div 10), Digits[(n % 10) + 1])

SafeChars ==
    { "a", "b", "c", "d", "e", "f", "g", "h", "i", "j", "k", "l", "m",
      "n", "o", "p", "q", "r", "s", "t", "u", "v", "w", "x", "y", "z",
      "A", "B", "C", "D", "E", "F", "G", "H", "I", "J", "K", "L", "M",
      "N", "O", "P", "Q", "R", "S", "T", "U", "V", "W", "X", "Y", "Z",
      "0", "1", "2", "3", "4", "5", "6", "7", "8", "9", "_", "-", "." }

\* Utilities.getSafeFilenameForName: every character that is not safe in a
\* file name becomes "_"
getSafeFilenameForName(name) ==
    [i \in 1..Len(name) |-> IF name[i] \in SafeChars THEN name[i] ELSE "_"]

\* index of the first "/" of name, 0 if there is none
FirstSlash(name) ==
    IF \E i \in 1..Len(name) : name[i] = "/"
    THEN CHOOSE i \in 1..Len(name) :
            name[i] = "/" /\ \A j \in 1..(i - 1) : name[j] # "/"
    ELSE 0

\* PackageName.getUnscopedName: "@scope/name" -> "name", "name" -> "name"
getUnscopedName(name) ==
    IF Len(name) > 0 /\ name[1] = "@" /\ FirstSlash(name) > 0
    THEN SubSeq(name, FirstSlash(name) + 1, Len(name))
    ELSE name

(***************************************************************************)
(* HtmlEmitter.ts.  A JavaScript value that is undefined, a string or an   *)
(* HtmlNode[] is a record [t, s, n]; an HtmlNode is [type, attributes,     *)
(* content] with attributes a function from attribute names to values      *)
(* (the empty function when the node has no `attributes` property).        *)
(***************************************************************************)
Undefined == [t |-> "undefined", s |-> "", n |-> <<>>]
StrV(s) == [t |-> "string", s |-> s, n |-> <<>>]
NodesV(n) == [t |-> "nodes", s |-> "", n |-> n]

\* JavaScript truthiness: undefined and '' are falsy, every array is truthy
Truthy(v) == v.t = "nodes" \/ (v.t = "string" /\ v.s # "")

NoAttributes == [x \in {} |-> Undefined]

_tag(type, className, content) ==
    IF Truthy(className)
    THEN [type |-> type, attributes |-> [x \in {"class"} |-> className],
          content |-> content]
    ELSE [type |-> type, attributes |-> NoAttributes, content |-> content]

tag(type, arg1, arg2) ==
    IF Truthy(arg2) THEN _tag(type, arg1, arg2)
    ELSE _tag(type, Undefined, arg1)

\* tag(type), tag(type, content), tag(type, className, content) as called
tag1(type) == tag(type, Undefined, Undefined)
tag2(type, content) == tag(type, content, Undefined)
tag3(type, className, content) == tag(type, StrV(className), content)

table(headings) ==
    tag2("table", NodesV(<<
        tag2("thead", NodesV(<<
            tag2("tr", NodesV([i \in 1..Len(headings) |->
                                  tag2("th", StrV(headings[i]))])) >>)) >>))

\* cells: a sequence of values, each a string or (a sequence holding) one node
tr(cells) ==
    tag2("tr", NodesV([i \in 1..Len(cells) |->
        IF cells[i].t = "string" THEN tag2("td", cells[i])
        ELSE tag2("td", NodesV(cells[i].n))]))

\* a(text, href, className?): an anchor node
a(text, href, className) ==
    [type |-> "a",
     attributes |-> IF className = "" THEN [x \in {"href"} |-> StrV(href)]
                    ELSE [x \in {"href", "class"} |->
                             IF x = "href" THEN StrV(href) ELSE StrV(className)],
     content |-> StrV(text)]

\* emit: the document handed to HtmlCreator, a head with one stylesheet link
\* per style and a body holding the content
emit(styles, content) ==
    << tag2("head", NodesV([i \in 1..Len(styles) |->
          [type |-> "link",
           attributes |-> [x \in {"rel", "type", "href"} |->
               IF x = "rel" THEN StrV("stylesheet")
               ELSE IF x = "type" THEN StrV("text/css") ELSE StrV(styles[i])],
           content |-> Undefined]])),
       tag2("body", NodesV(content)) >>

\* array.push on the content of a block node
Push(node, row) ==
    [node EXCEPT !.content = NodesV(Append(node.content.n, row))]

(***************************************************************************)
(* The inputs: ApiItem (api-extractor-model) and DocNode (tsdoc).          *)
(***************************************************************************)
ApiItemKinds ==
    { "Model", "Package", "EntryPoint", "Namespace", "Class", "Interface",
      "Enum", "EnumMember", "Constructor", "ConstructSignature", "Method",
      "MethodSignature", "Function", "Property", "PropertySignature",
      "TypeAlias", "Variable", "CallSignature", "IndexSignature" }

\* the kinds ApiParameterListMixin.isBaseClassOf accepts
ParameterListKinds ==
    { "Constructor", "ConstructSignature", "Method", "MethodSignature",
      "Function", "CallSignature", "IndexSignature" }

DocNodeKinds ==
    { "Paragraph", "SoftBreak", "CodeSpan", "LinkTag", "PlainText",
      "FencedCode" }

DocNode(kind, text, nodes, url) ==
    [kind |-> kind, text |-> text, nodes |-> nodes, urlDestination |-> url]

PlainText(text) == DocNode("PlainText", text, <<>>, "")
CodeSpan(code) == DocNode("CodeSpan", code, <<>>, "")
SoftBreak == DocNode("SoftBreak", "", <<>>, "")
Paragraph(nodes) == DocNode("Paragraph", "", nodes, "")
\* a link's text is its linkText; urlDestination "" is a code destination
LinkTag(linkText, url) == DocNode("LinkTag", linkText, <<>>, url)
FencedCode(code) == DocNode("FencedCode", code, <<>>, "")

NoComment == [present |-> FALSE, summary |-> <<>>, hasRemarks |-> FALSE,
              remarks |-> <<>>]
Comment(summary) == [present |-> TRUE, summary |-> summary,
                     hasRemarks |-> FALSE, remarks |-> <<>>]
CommentWithRemarks(summary, remarks) ==
    [present |-> TRUE, summary |-> summary, hasRemarks |-> TRUE,
     remarks |-> remarks]

\* the ApiItem at a path
Item(p) == apiModel[p]

Paths == DOMAIN apiModel

\* apiItem.members, in declaration order
members(p) ==
    [k \in 1..Cardinality({q \in Paths : Len(q) = Len(p) + 1
                              /\ SubSeq(q, 1, Len(p)) = p}) |-> Append(p, k)]

\* apiItem.getHierarchy(): the item's ancestors from the model down, then
\* the item itself
getHierarchy(p) == [i \in 1..(Len(p) + 1) |-> SubSeq(p, 1, i - 1)]

\* a sequence of strings joined by sep
RECURSIVE Join(_, _)
Join(parts, sep) ==
    IF parts = <<>> THEN ""
    ELSE IF Len(parts) = 1 THEN parts[1]
    ELSE parts[1] \o sep \o Join(Tail(parts), sep)

\* apiItem.getScopedNameWithinPackage(): the display names of the levels
\* below the entry point, joined by "."
getScopedNameWithinPackage(p) ==
    Join([i \in 1..(IF Len(p) > 2 THEN Len(p) - 2 ELSE 0) |->
             Str(Item(SubSeq(p, 1, i + 2)).displayName)], ".")

(***************************************************************************)
(* HtmlDocumenter._getFilenameForApiItem                                   *)
(***************************************************************************)
\* qualifiedName with the overload index itself as the suffix
qualifiedName_IndexAsSuffix(hierarchyItem) ==
    IF hierarchyItem.kind \in ParameterListKinds
       /\ hierarchyItem.overloadIndex > 1
    THEN getSafeFilenameForName(hierarchyItem.displayName)
            \o <<"_">> \o ToDecimal(hierarchyItem.overloadIndex)
    ELSE getSafeFilenameForName(hierarchyItem.displayName)

\* lines 773-780: the safe display name of a hierarchy level, with the
\* overload suffix "_<overloadIndex - 1>" when the level has a parameter list
qualifiedName(hierarchyItem) ==
    IF hierarchyItem.kind \in ParameterListKinds
       /\ hierarchyItem.overloadIndex > 1
    THEN getSafeFilenameForName(hierarchyItem.displayName)
            \o <<"_">> \o ToDecimal(hierarchyItem.overloadIndex - 1)
    ELSE getSafeFilenameForName(hierarchyItem.displayName)

RECURSIVE baseName(_, _)
\* baseName without the case that passes over the entry point
baseName_EntryPointNamed(h, n) ==
    IF n = 0 THEN <<>>
    ELSE CASE Item(h[n]).kind = "Model" -> baseName(h, n - 1)
           [] Item(h[n]).kind = "Package" ->
                getSafeFilenameForName(getUnscopedName(Item(h[n]).displayName))
           [] OTHER -> baseName(h, n - 1) \o <<".">> \o qualifiedName(Item(h[n]))

\* lines 770-792: baseName after the first n levels of hierarchy h
baseName(h, n) ==
    IF n = 0 THEN <<>>
    ELSE CASE Item(h[n]).kind \in {"Model", "EntryPoint"} -> baseName(h, n - 1)
           [] Item(h[n]).kind = "Package" ->
                getSafeFilenameForName(getUnscopedName(Item(h[n]).displayName))
           [] OTHER -> baseName(h, n - 1) \o <<".">> \o qualifiedName(Item(h[n]))

_getFilenameForApiItem(p) ==
    IF Item(p).kind = "Model" THEN "index.html"
    ELSE Str(baseName(getHierarchy(p), Len(p) + 1)) \o ".html"

_getLinkFilenameForApiItem(p) == "./" \o _getFilenameForApiItem(p)

(***************************************************************************)
(* HtmlDocumenter._createDocNodes.  The result is [threw, nodes, warns]:   *)
(* threw when an unsupported DocNode kind raised the Error, nodes the      *)
(* HtmlNodes returned otherwise, warns the console.warn calls made.        *)
(***************************************************************************)
Threw(warns) == [threw |-> TRUE, nodes |-> <<>>, warns |-> warns]
Returned(nodes, warns) == [threw |-> FALSE, nodes |-> nodes, warns |-> warns]

\* tag('p', ...) around the rendered children of a paragraph
InParagraph(inner) ==
    IF inner.threw THEN inner
    ELSE Returned(<<tag2("p", NodesV(inner.nodes))>>, inner.warns)

RECURSIVE _createDocNodes(_)
RECURSIVE createDocNode(_)
\* createDocNode whose undefined result for a SoftBreak stays in the array
createDocNode_SoftBreakKept(node) ==
    CASE node.kind = "Paragraph" ->
           Bind1(InParagraph, _createDocNodes(node.nodes))
      [] node.kind = "SoftBreak" -> Returned(<<Undefined>>, 0)
      [] node.kind = "CodeSpan" -> Returned(<<tag2("code", StrV(node.text))>>, 0)
      [] node.kind = "LinkTag" ->
           IF node.urlDestination # ""
           THEN Returned(<<a(IF node.text # "" THEN node.text
                             ELSE node.urlDestination,
                             node.urlDestination, "")>>, 0)
           ELSE Returned(<<a(IF node.text # "" THEN node.text
                             ELSE "Missing Link", "missing-link", "")>>, 1)
      [] node.kind = "PlainText" -> Returned(<<tag2("span", StrV(node.text))>>, 0)
      [] OTHER -> Threw(0)

\* the callback of nodes.map; an undefined result (dropped by the filter) is
\* the empty sequence, every other result a sequence of one node
createDocNode(node) ==
    CASE node.kind = "Paragraph" ->
           Bind1(InParagraph, _createDocNodes(node.nodes))
      [] node.kind = "SoftBreak" -> Returned(<<>>, 0)
      [] node.kind = "CodeSpan" -> Returned(<<tag2("code", StrV(node.text))>>, 0)
      [] node.kind = "LinkTag" ->
           IF node.urlDestination # ""
           THEN Returned(<<a(IF node.text # "" THEN node.text
                             ELSE node.urlDestination,
                             node.urlDestination, "")>>, 0)
           ELSE Returned(<<a(IF node.text # "" THEN node.text
                             ELSE "Missing Link", "missing-link", "")>>, 1)
      [] node.kind = "PlainText" -> Returned(<<tag2("span", StrV(node.text))>>, 0)
      [] OTHER -> Threw(0)

\* the results of the first node and of the nodes after it, together
Concat(first, rest) ==
    IF first.threw THEN first
    ELSE IF rest.threw THEN Threw(first.warns + rest.warns)
    ELSE Returned(first.nodes \o rest.nodes, first.warns + rest.warns)

_createDocNodes(nodes) ==
    IF nodes = <<>> THEN Returned(<<>>, 0)
    ELSE Bind2(Concat, createDocNode(Head(nodes)), _createDocNodes(Tail(nodes)))

(***************************************************************************)
(* HtmlDocumenter: the pieces of a page.  A piece that can raise an Error  *)
(* yields [threw, error, output, warns]: output is the page's `output`     *)
(* array after the piece ran, warns the console.warn calls it made.        *)
(***************************************************************************)
Raised(msg, warns) ==
    [threw |-> TRUE, error |-> msg, output |-> <<>>, warns |-> warns]
Built(output, warns) ==
    [threw |-> FALSE, error |-> "", output |-> output, warns |-> warns]

UnsupportedItemKind == "Unsupported API item kind"
UnsupportedDocNodeKind == "Unsupported DocNode kind"

\* Utilities.getConciseSignature: the display name, followed for an item with
\* a parameter list by its parameter names in parentheses
getConciseSignature(p) ==
    IF Item(p).kind \in ParameterListKinds
    THEN Str(Item(p).displayName) \o "("
            \o Join([i \in 1..Len(Item(p).parameters) |->
                        Item(p).parameters[i].name], ", ") \o ")"
    ELSE Str(Item(p).displayName)

\* lines 707-719: the links of the hierarchy levels other than the model and
\* the entry point, each after a separator
RECURSIVE breadcrumbLevels(_, _)
\* breadcrumbLevels passing over the package as well
breadcrumbLevels_NoPackage(h, n) ==
    IF n = 0 THEN <<>>
    ELSE IF Item(h[n]).kind \in {"Model", "EntryPoint", "Package"}
         THEN breadcrumbLevels(h, n - 1)
         ELSE breadcrumbLevels(h, n - 1)
                \o << tag3("span", "breadcrumb", StrV(" / ")),
                      a(Str(Item(h[n]).displayName),
                        _getLinkFilenameForApiItem(h[n]), "breadcrumb") >>

breadcrumbLevels(h, n) ==
    IF n = 0 THEN <<>>
    ELSE IF Item(h[n]).kind \in {"Model", "EntryPoint"}
         THEN breadcrumbLevels(h, n - 1)
         ELSE breadcrumbLevels(h, n - 1)
                \o << tag3("span", "breadcrumb", StrV(" / ")),
                      a(Str(Item(h[n]).displayName),
                        _getLinkFilenameForApiItem(h[n]), "breadcrumb") >>

_writeBreadcrumb(output, p) ==
    output \o <<a("Home", _getLinkFilenameForApiItem(<<>>), "breadcrumb")>>
           \o breadcrumbLevels(getHierarchy(p), Len(p) + 1)

\* lines 108-152: the kinds with a heading, and the text after the name
HeadingLabel(kind) ==
    CASE kind = "Class" -> " class"
      [] kind = "Enum" -> " enum"
      [] kind = "Interface" -> " interface"
      [] kind \in {"Constructor", "ConstructSignature"} -> ""
      [] kind \in {"Method", "MethodSignature"} -> " method"
      [] kind = "Function" -> " function"
      [] kind = "Model" -> " API Reference"
      [] kind = "Namespace" -> " namespace"
      [] kind = "Package" -> " package"
      [] kind \in {"Property", "PropertySignature"} -> " property"
      [] kind = "TypeAlias" -> " type"
      [] kind = "Variable" -> " variable"
      [] OTHER -> "unsupported"

SupportedKinds == {k \in ApiItemKinds : HeadingLabel(k) # "unsupported"}

\* RemarksFirstKinds with the case of the class alone
RemarksFirstKinds_ClassOnly == {"Class"}

\* lines 195-203: the kinds whose remarks come before the member tables
RemarksFirstKinds == {"Class", "Interface", "Namespace", "Package"}

\* RemarksSection catching the Error of an unsupported doc node: the page
\* goes on without the section
RemarksSection_ErrorCaught(output, docNodes) ==
    IF docNodes.threw THEN Built(output, docNodes.warns)
    ELSE Built(output \o << tag3("div", "remarks", StrV("Remarks")),
                            tag2("div", NodesV(docNodes.nodes)) >>,
               docNodes.warns)

RemarksSection(output, docNodes) ==
    IF docNodes.threw THEN Raised(UnsupportedDocNodeKind, docNodes.warns)
    ELSE Built(output \o << tag3("div", "remarks", StrV("Remarks")),
                            tag2("div", NodesV(docNodes.nodes)) >>,
               docNodes.warns)

_writeRemarksSection(output, p) ==
    IF Item(p).tsdocComment.present /\ Item(p).tsdocComment.hasRemarks
    THEN Bind2(RemarksSection, output,
               _createDocNodes(Item(p).tsdocComment.remarks))
    ELSE Built(output, 0)

\* lines 160-185: the summary, docNodes being the rendering of the summary
\* section
WithSummary(output, p, docNodes) ==
    IF ~Item(p).tsdocComment.present THEN Built(output, 0)
    ELSE IF docNodes.threw THEN Raised(UnsupportedDocNodeKind, docNodes.warns)
    ELSE Built(Append(output, tag3("div", "summary", NodesV(docNodes.nodes))),
               docNodes.warns)

\* lines 187-192: the signature, r being the page so far
WithSignature(r, p) ==
    IF r.threw \/ Item(p).excerpt = "" THEN r
    ELSE Built(r.output \o << tag3("div", "signature-heading", StrV("Signature")),
                              tag3("pre", "signature", StrV(Item(p).excerpt)) >>,
               r.warns)

\* r, then the piece `next` that ran on r's output
Then(r, next) ==
    IF next.threw THEN Raised(next.error, r.warns + next.warns)
    ELSE Built(next.output, r.warns + next.warns)

\* lines 194-203: the remarks of the kinds that have them first
WithRemarksFirst(r, p) ==
    IF r.threw \/ Item(p).kind \notin RemarksFirstKinds THEN r
    ELSE Bind1(LAMBDA next : Then(r, next), _writeRemarksSection(r.output, p))

\* the title of the page's heading
PageTitle(p) ==
    IF Item(p).kind = "Package" THEN Str(getUnscopedName(Item(p).displayName))
    ELSE getScopedNameWithinPackage(p)

\* lines 102-203 of _writeApiItemPage: breadcrumb, heading, summary,
\* signature, and the remarks of the kinds that have them first
PageHead(p) ==
    IF Item(p).kind \notin SupportedKinds THEN Raised(UnsupportedItemKind, 0)
    ELSE Bind1(LAMBDA signed : WithRemarksFirst(signed, p),
           Bind1(LAMBDA summarised : WithSignature(summarised, p),
              Bind2(LAMBDA headed, docNodes : WithSummary(headed, p, docNodes),
                 Append(_writeBreadcrumb(<<>>, p),
                        tag3("h1", "page-header",
                             StrV(PageTitle(p) \o HeadingLabel(Item(p).kind)))),
                 _createDocNodes(Item(p).tsdocComment.summary))))

_createTitleCell(p) ==
    a(getConciseSignature(p), _getLinkFilenameForApiItem(p), "ref")

\* [threw, nodes, warns], nodes holding the one cell
DescriptionCell(docNodes) ==
    IF docNodes.threw THEN docNodes
    ELSE Returned(<<tag3("div", "description", NodesV(docNodes.nodes))>>,
                  docNodes.warns)

_createDescriptionCell(p) ==
    IF Item(p).tsdocComment.present
    THEN Bind1(DescriptionCell, _createDocNodes(Item(p).tsdocComment.summary))
    ELSE Returned(<<tag3("div", "description", NodesV(<<>>))>>, 0)

_createModifiersCell(p) ==
    IF Item(p).isStatic THEN tag3("code", "modifiers", StrV("static"))
    ELSE tag("div", StrV("modifiers"), Undefined)

_createPropertyTypeCell(p) ==
    IF Item(p).kind \in {"Property", "PropertySignature"}
    THEN tag3("code", "type", StrV(Item(p).propertyType))
    ELSE tag("code", StrV("type"), Undefined)

\* the cell c ("title", "modifiers", "type", "description") of item p, d
\* being its description cell
Cell(c, p, d) ==
    CASE c = "title" -> NodesV(<<_createTitleCell(p)>>)
      [] c = "modifiers" -> NodesV(<<_createModifiersCell(p)>>)
      [] c = "type" -> NodesV(<<_createPropertyTypeCell(p)>>)
      [] OTHER -> NodesV(d.nodes)

RowOf(p, cells, d) ==
    IF d.threw THEN d
    ELSE Returned(<<tr([i \in 1..Len(cells) |-> Cell(cells[i], p, d)])>>, d.warns)

\* the table row of item p with the cells named in `cells`, as
\* [threw, nodes, warns] with nodes holding the row
Row(p, cells) ==
    Bind1(LAMBDA d : RowOf(p, cells, d), _createDescriptionCell(p))

\* `if (t.content.length > threshold) { push heading; push table }`
Section(output, t, threshold, heading) ==
    IF Len(t.content.n) > threshold
    THEN output \o <<tag3("h3", "section-heading", StrV(heading)), t>>
    ELSE output

(***************************************************************************)
(* The member tables of each kind of page.                                 *)
(***************************************************************************)
NoTables == [x \in {} |-> Undefined]

\* the tables a page's body starts with (lines 321, 344-350, 440-443,
\* 546-548)
NewTables(kind) ==
    CASE kind = "Model" ->
           [x \in {"packages"} |-> table(<<"Package", "Description">>)]
      [] kind \in {"Package", "Namespace"} ->
           [x \in {"classes", "enumerations", "functions", "interfaces",
                   "namespaces", "variables", "typeAliases"} |->
              table(<< CASE x = "classes" -> "Class"
                         [] x = "enumerations" -> "Enumeration"
                         [] x = "functions" -> "Function"
                         [] x = "interfaces" -> "Interface"
                         [] x = "namespaces" -> "Namespace"
                         [] x = "variables" -> "Variable"
                         [] OTHER -> "Type Alias", "Description" >>)]
      [] kind = "Class" ->
           [x \in {"events", "constructors", "properties", "methods"} |->
              CASE x = "constructors" ->
                     table(<<"Constructor", "Modifiers", "Description">>)
                [] x = "methods" ->
                     table(<<"Method", "Modifiers", "Description">>)
                [] OTHER ->
                     table(<<"Property", "Modifiers", "Type", "Description">>)]
      [] kind = "Interface" ->
           [x \in {"events", "properties", "methods"} |->
              IF x = "methods" THEN table(<<"Method", "Description">>)
              ELSE table(<<"Property", "Type", "Description">>)]
      [] OTHER -> NoTables

\* lines 326-331: the table of a member of the model, "" when the switch has
\* no case for its kind
ModelRoute(m) == IF Item(m).kind = "Package" THEN "packages" ELSE ""

\* lines 363-398
PackageOrNamespaceRoute(m) ==
    CASE Item(m).kind = "Class" -> "classes"
      [] Item(m).kind = "Enum" -> "enumerations"
      [] Item(m).kind = "Interface" -> "interfaces"
      [] Item(m).kind = "Namespace" -> "namespaces"
      [] Item(m).kind = "Function" -> "functions"
      [] Item(m).kind = "TypeAlias" -> "typeAliases"
      [] Item(m).kind = "Variable" -> "variables"
      [] OTHER -> ""

\* ClassRoute without the case for methods
ClassRoute_NoMethodCase(m) ==
    CASE Item(m).kind = "Constructor" -> "constructors"
      [] Item(m).kind = "Property" ->
           IF Item(m).isEventProperty THEN "events" ELSE "properties"
      [] OTHER -> ""

\* ClassRoute without the test of the event flag
ClassRoute_EventFlagIgnored(m) ==
    CASE Item(m).kind = "Constructor" -> "constructors"
      [] Item(m).kind = "Method" -> "methods"
      [] Item(m).kind = "Property" -> "properties"
      [] OTHER -> ""

\* lines 447-498
ClassRoute(m) ==
    CASE Item(m).kind = "Constructor" -> "constructors"
      [] Item(m).kind = "Method" -> "methods"
      [] Item(m).kind = "Property" ->
           IF Item(m).isEventProperty THEN "events" ELSE "properties"
      [] OTHER -> ""

\* lines 552-583
InterfaceRoute(m) ==
    CASE Item(m).kind \in {"ConstructSignature", "MethodSignature"} -> "methods"
      [] Item(m).kind = "PropertySignature" ->
           IF Item(m).isEventProperty THEN "events" ELSE "properties"
      [] OTHER -> ""

\* lines 334-337
ModelSections(output, tables) ==
    Section(output, tables["packages"], 0, "Packages")

\* lines 401-433
PackageOrNamespaceSections(output, tables) ==
    Section(Section(Section(Section(Section(Section(Section(output,
        tables["classes"], 1, "Classes"),
        tables["enumerations"], 1, "Enumerations"),
        tables["functions"], 1, "Functions"),
        tables["interfaces"], 1, "Interfaces"),
        tables["namespaces"], 1, "Namespaces"),
        tables["variables"], 1, "Variables"),
        tables["typeAliases"], 1, "Types")

\* lines 501-519
ClassSections(output, tables) ==
    Section(Section(Section(Section(output,
        tables["events"], 0, "Events"),
        tables["constructors"], 1, "Constructors"),
        tables["properties"], 1, "Properties"),
        tables["methods"], 1, "Methods")

\* lines 586-599
InterfaceSections(output, tables) ==
    Section(Section(Section(output,
        tables["events"], 1, "Events"),
        tables["properties"], 1, "Properties"),
        tables["methods"], 1, "Methods")

\* lines 529-533: the row of enum member m, d being its description cell
EnumRow(m, d) ==
    tr(<< StrV(getConciseSignature(m)), StrV(Item(m).initializer),
          NodesV(d.nodes) >>)

\* lines 528-534: the table after the rows of members ms, as [threw, error,
\* output, warns] with output holding the table
RECURSIVE enumRows(_, _)
AddEnumRow(r, m, d) ==
    IF r.threw THEN r
    ELSE IF d.threw THEN Raised(UnsupportedDocNodeKind, r.warns + d.warns)
    ELSE Built(<<Push(r.output[1], EnumRow(m, d))>>, r.warns + d.warns)

enumRows(ms, n) ==
    IF n = 0 THEN Built(<<table(<<"Member", "Value", "Description">>)>>, 0)
    ELSE Bind2(LAMBDA r, d : AddEnumRow(r, ms[n], d),
               enumRows(ms, n - 1), _createDescriptionCell(ms[n]))

\* lines 536-539
EnumSection(output, r) ==
    IF r.threw THEN r
    ELSE Built(Section(output, r.output[1], 1, "Enumeration Members"), r.warns)

EnumBody(output, p) ==
    Bind1(LAMBDA r : EnumSection(output, r),
          enumRows(members(p), Len(members(p))))

\* lines 606-620 of _writeParameterTables
parametersTable(p) ==
    [table(<<"Parameter", "Type", "Description">>) EXCEPT
        !.content = NodesV(@.n \o [i \in 1..Len(Item(p).parameters) |->
            tr(<< StrV(Item(p).parameters[i].name),
                  StrV(Item(p).parameters[i].type) >>)])]

ParameterBody(output, p) ==
    Built(Section(output, parametersTable(p), 1, "Parameters"), 0)

(***************************************************************************)
(* The API models the generator is run on.  A model is described as a     *)
(* tree of [item, members] nodes and flattened into path -> ApiItem; the   *)
(* overload index of an item with a parameter list is its 1-based position *)
(* among the same-named members of its container, as the model layer       *)
(* assigns it.                                                             *)
(***************************************************************************)
BaseItem(kind, displayName) ==
    [kind |-> kind, displayName |-> displayName, overloadIndex |-> 0,
     isEventProperty |-> FALSE, isStatic |-> FALSE, parameters |-> <<>>,
     tsdocComment |-> NoComment, excerpt |-> "", propertyType |-> "",
     initializer |-> ""]

Node(item, ms) == [item |-> item, members |-> ms]
Leaf(item) == Node(item, <<>>)

overloadIndexOf(siblings, k) ==
    IF siblings[k].item.kind \in ParameterListKinds
    THEN 1 + Cardinality({j \in 1..(k - 1) :
                /\ siblings[j].item.kind = siblings[k].item.kind
                /\ siblings[j].item.displayName = siblings[k].item.displayName
                /\ siblings[j].item.isStatic = siblings[k].item.isStatic})
    ELSE 0

RECURSIVE Flatten(_, _)
Flatten(path, node) ==
    {<<path, node.item>>} \cup
    UNION { Flatten(Append(path, k),
                    [node.members[k] EXCEPT
                        !.item.overloadIndex = overloadIndexOf(node.members, k)])
            : k \in 1..Len(node.members) }

BuildModel(packages) ==
    LET flat == Flatten(<<>>, Node(BaseItem("Model", <<>>), packages))
    IN  [q \in {x[1] : x \in flat} |-> (CHOOSE x \in flat : x[1] = q)[2]]

\* a package and its single entry point
Package(displayName, ms) ==
    Node(BaseItem("Package", displayName),
         <<Node(BaseItem("EntryPoint", <<>>), ms)>>)

\* sequences over S of length lo..hi
SeqsOf(S, lo, hi) == UNION {[1..n -> S] : n \in lo..hi}

\* a container holds no two members of the same name and kind, overloads
\* apart (a static and an instance member are told apart)
Declarable(ms) ==
    \A j \in 1..Len(ms) : \A k \in (j + 1)..Len(ms) :
        \/ ms[j].item.displayName # ms[k].item.displayName
        \/ ms[j].item.kind # ms[k].item.kind
        \/ ms[j].item.isStatic # ms[k].item.isStatic
        \/ ms[j].item.kind \in ParameterListKinds

MemberLists(S, hi) == {ms \in SeqsOf(S, 0, hi) : Declarable(ms)}

N_widgets == <<"w", "i", "d", "g", "e", "t", "s">>
N_scoped_widgets == <<"@", "s", "c", "o", "p", "e", "/">> \o N_widgets
N_index == <<"i", "n", "d", "e", "x">>
N_Widget == <<"W", "i", "d", "g", "e", "t">>
N_doThing == <<"d", "o", "T", "h", "i", "n", "g">>
N_foo == <<"f", "o", "o">>
N_foo_1 == <<"f", "o", "o", "_", "1">>
N_constructor == <<"(", "c", "o", "n", "s", "t", "r", "u", "c", "t", "o", "r", ")">>
N_new == <<"(", "n", "e", "w", ")">>
N_call == <<"(", "c", "a", "l", "l", ")">>
N_indexer == <<"(", "i", "n", "d", "e", "x", "e", "r", ")">>

PackageNames == {N_scoped_widgets, N_widgets, N_index}

Param(name, type) == [name |-> name, type |-> type]

Declared(kind, displayName, excerpt) ==
    [BaseItem(kind, displayName) EXCEPT !.excerpt = excerpt]

FunctionLike(kind, displayName, parameters) ==
    [Declared(kind, displayName, "declare " \o Str(displayName) \o "()")
        EXCEPT !.parameters = parameters]

PropertyLike(kind, displayName, isEvent) ==
    [Declared(kind, displayName, Str(displayName) \o ": T") EXCEPT
        !.isEventProperty = isEvent, !.propertyType = "T"]

\* the members of a package entry point, flat family: functions whose names
\* differ by an "_<n>" ending, variables whose names differ in a character
\* that is not safe in a file name, and a namespace merged with a function
FlatMembers ==
    { Leaf(FunctionLike("Function", N_foo, <<>>)),
      Leaf(FunctionLike("Function", N_foo_1, <<Param("x", "number")>>)),
      Leaf(Declared("Variable", <<"a", "$", "b">>, "a$b: number")),
      Leaf(Declared("Variable", <<"a", "_", "b">>, "a_b: number")),
      Leaf(Declared("Namespace", N_foo, "namespace foo")) }

FlatModels ==
    { BuildModel(<<Package(<<"p">>, ms)>>) :
        ms \in MemberLists(FlatMembers, MaxMembers) }

ClassMembers ==
    { Leaf(FunctionLike("Constructor", N_constructor, <<Param("a", "string")>>)),
      Leaf(FunctionLike("Method", <<"m">>, <<>>)),
      Leaf([FunctionLike("Method", <<"m">>, <<>>) EXCEPT !.isStatic = TRUE]),
      Leaf(PropertyLike("Property", <<"x">>, FALSE)),
      Leaf(PropertyLike("Property", <<"e">>, TRUE)),
      Leaf(FunctionLike("IndexSignature", N_indexer, <<Param("k", "string")>>)) }

InterfaceMembers ==
    { Leaf(FunctionLike("ConstructSignature", N_new, <<>>)),
      Leaf(FunctionLike("MethodSignature", <<"m">>, <<Param("x", "number")>>)),
      Leaf(PropertyLike("PropertySignature", <<"x">>, FALSE)),
      Leaf(PropertyLike("PropertySignature", <<"e">>, TRUE)),
      Leaf(FunctionLike("CallSignature", N_call, <<>>)) }

EnumMembers ==
    { Leaf([Declared("EnumMember", <<"A">>, "A = 0") EXCEPT !.initializer = "0"]),
      Leaf([Declared("EnumMember", <<"B">>, "B = 1") EXCEPT !.initializer = "1"]) }

NamespaceMembers ==
    { Leaf(Declared("Class", <<"C">>, "class C")),
      Node(Declared("Enum", <<"E">>, "enum E"),
           <<Leaf([Declared("EnumMember", <<"A">>, "A = 0")
                      EXCEPT !.initializer = "0"])>>),
      Leaf(Declared("Interface", <<"I">>, "interface I")),
      Leaf(Declared("Namespace", <<"N">>, "namespace N")),
      Leaf(FunctionLike("Function", <<"f">>, <<Param("x", "number")>>)),
      Leaf(Declared("TypeAlias", <<"T">>, "type T = string")),
      Leaf(Declared("Variable", <<"v">>, "v: number")) }

\* one container of each kind in a package, holding up to
\* MaxContainerMembers members
Containers ==
    { <<Declared("Class", <<"C">>, "class C"), ClassMembers>>,
      <<Declared("Interface", <<"I">>, "interface I"), InterfaceMembers>>,
      <<Declared("Namespace", <<"N">>, "namespace N"), NamespaceMembers>>,
      <<Declared("Enum", <<"E">>, "enum E"), EnumMembers>> }

ContainerModels ==
    UNION { { BuildModel(<<Package(<<"p">>, <<Node(c[1], ms)>>)>>) :
                ms \in MemberLists(c[2], MaxContainerMembers) } : c \in Containers }

\* a class Widget with a method doThing(x: number): void, documented
WidgetClass ==
    Node(Declared("Class", N_Widget, "export declare class Widget"),
         << Leaf([FunctionLike("Method", N_doThing, <<Param("x", "number")>>)
                    EXCEPT !.excerpt = "doThing(x: number): void;",
                           !.tsdocComment =
                               Comment(<<Paragraph(<<PlainText("Does the thing.")>>)>>)]) >>)

\* node wrapped in n namespaces NS
RECURSIVE Nested(_, _)
Nested(node, n) ==
    IF n = 0 THEN node
    ELSE Node(Declared("Namespace", <<"N", "S">>, "namespace NS"),
              <<Nested(node, n - 1)>>)

\* the class Widget in a package, below 0..MaxNesting namespaces
ChainModels ==
    { BuildModel(<<Package(name, <<Nested(WidgetClass, n)>>)>>) :
        name \in PackageNames, n \in 0..MaxNesting }

\* models of up to MaxPackages packages without members
PackageModels ==
    { BuildModel(ps) :
        ps \in MemberLists({Package(name, <<>>) : name \in PackageNames},
                           MaxPackages) }

DocComments ==
    { NoComment,
      Comment(<<Paragraph(<<PlainText("a"), SoftBreak, PlainText("b")>>)>>),
      Comment(<<Paragraph(<<LinkTag("", ""), CodeSpan("c")>>)>>),
      Comment(<<Paragraph(<<PlainText("a")>>), FencedCode("x")>>),
      CommentWithRemarks(<<Paragraph(<<PlainText("a")>>)>>,
                         <<Paragraph(<<LinkTag("", "http://u")>>)>>),
      CommentWithRemarks(<<>>, <<FencedCode("x")>>) }

\* a class and its method, each with one of the doc comments
DocModels ==
    { BuildModel(<<Package(<<"p">>,
        << Node([Declared("Class", <<"C">>, "class C") EXCEPT !.tsdocComment = dc],
                << Leaf([FunctionLike("Method", <<"m">>, <<>>)
                            EXCEPT !.tsdocComment = dm]) >>) >>)>>) :
        dc \in DocComments, dm \in DocComments }

\* a documented class and its documented method between two variables of the
\* package: one of the two doc comments is any of DocComments
SiblingModels ==
    { BuildModel(<<Package(<<"p">>,
        << Leaf(Declared("Variable", <<"v">>, "v: number")),
           Node([Declared("Class", <<"C">>, "class C") EXCEPT
                    !.tsdocComment = dcm[1]],
                << Leaf([FunctionLike("Method", <<"m">>, <<>>)
                            EXCEPT !.tsdocComment = dcm[2]]) >>),
           Leaf(Declared("Variable", <<"w">>, "w: number")) >>)>>) :
        dcm \in (DocComments \X {NoComment}) \cup ({NoComment} \X DocComments) }

\* a package holding a function with a parameter, an enum, a namespace, an
\* interface and a variable, the package and each of them with the doc
\* comment dc
Documented(item, dc) == [item EXCEPT !.tsdocComment = dc]

RemarksModels ==
    { BuildModel(<<
        Node(Documented(BaseItem("Package", <<"p">>), dc),
          <<Node(BaseItem("EntryPoint", <<>>),
            << Leaf(Documented(
                  FunctionLike("Function", <<"f">>, <<Param("x", "number")>>), dc)),
               Node(Documented(Declared("Enum", <<"E">>, "enum E"), dc),
                    <<Leaf([Declared("EnumMember", <<"A">>, "A = 0")
                               EXCEPT !.initializer = "0"])>>),
               Node(Documented(Declared("Namespace", <<"N">>, "namespace N"), dc),
                    <<Leaf(Declared("Variable", <<"v">>, "v: number"))>>),
               Node(Documented(Declared("Interface", <<"I">>, "interface I"), dc),
                    <<Leaf(FunctionLike("MethodSignature", <<"m">>,
                                        <<Param("x", "number")>>))>>),
               Leaf(Documented(Declared("Variable", <<"w">>, "w: number"), dc))
            >>)>>) >>) :
        dc \in { NoComment,
                 CommentWithRemarks(<<Paragraph(<<PlainText("a")>>)>>,
                                    <<Paragraph(<<PlainText("b")>>)>>) } }

ApiModels ==
    FlatModels \cup ContainerModels \cup ChainModels \cup PackageModels
        \cup DocModels \cup SiblingModels \cup RemarksModels

\* the documenter configuration: none, or one whose plugin does or does not
\* yield a feature object
NoConfig == [supplied |-> FALSE, newlineKind |-> "", yieldsFeature |-> FALSE]

DocumenterConfigs ==
    { NoConfig } \cup
    { [supplied |-> TRUE, newlineKind |-> "lf", yieldsFeature |-> y] :
        y \in BOOLEAN }

(***************************************************************************)
(* The state after `new HtmlDocumenter(apiModel, documenterConfig)`; the   *)
(* output folder holds a file of an earlier run.                           *)
(***************************************************************************)
\* no helper is called on its own during generateFiles
NoCall == [fn |-> ""]

StaleFile == "stale.html"

Init ==
    /\ apiModel \in ApiModels
    /\ documenterConfig \in DocumenterConfigs
    /\ pc = "start"
    /\ stack = <<>>
    /\ folder = [f \in {StaleFile} |-> <<>>]
    /\ fsLog = <<>>
    /\ pluginLoader = [loadCalls |-> 0, markdownDocumenterFeature |-> FALSE]
    /\ onFinishedCalls = 0
    /\ warnings = 0
    /\ error = ""
    /\ call = NoCall
    /\ returned = NoCall

(***************************************************************************)
(* generateFiles and the traversal.  A frame of `stack` is one active call *)
(* of _writeApiItemPage: its item, its `output` array, the tables of its   *)
(* body, the index of the next member to visit and its phase ("body": in   *)
(* the kind-specific body; "write": at line 243).                          *)
(***************************************************************************)
Top == stack[Len(stack)]
TopKind == Item(Top.apiItem).kind

InBody == pc = "traversing" /\ stack # <<>> /\ Top.phase = "body"

Frame(p, output) ==
    [apiItem |-> p, output |-> output, tables |-> NewTables(Item(p).kind),
     i |-> 1, phase |-> "body"]

\* an Error leaves generateFiles: nothing catches it
Throw(msg, warns) ==
    /\ pc' = "failed"
    /\ error' = msg
    /\ stack' = <<>>
    /\ warnings' = warnings + warns
    /\ UNCHANGED <<apiModel, documenterConfig, folder, fsLog, pluginLoader,
                   onFinishedCalls, call, returned>>

\* the call this._writeApiItemPage(p) made with `callers` the frames below
\* it: lines 102-203 run, and the body of p is next
Enter(callers, p, warns, head) ==
    IF head.threw THEN Throw(head.error, warns + head.warns)
    ELSE /\ stack' = Append(callers, Frame(p, head.output))
         /\ warnings' = warnings + warns + head.warns
         /\ pc' = "traversing"
         /\ UNCHANGED <<apiModel, documenterConfig, folder, fsLog,
                        pluginLoader, onFinishedCalls, error, call, returned>>

EnterPage(callers, p, warns) ==
    \E head \in {PageHead(p)} : Enter(callers, p, warns, head)

\* one iteration of a member loop over member m: the member's row,
\* [threw, nodes, warns], goes into table `route` and the member's page is
\* written, or the member is passed over when route is ""
VisitMember(m, route, row) ==
    IF row.threw THEN Throw(UnsupportedDocNodeKind, row.warns)
    ELSE IF route = ""
    THEN /\ stack' = [stack EXCEPT ![Len(stack)].i = @ + 1]
         /\ warnings' = warnings + row.warns
         /\ UNCHANGED <<apiModel, documenterConfig, pc, folder, fsLog,
                        pluginLoader, onFinishedCalls, error, call, returned>>
    ELSE EnterPage(
            [stack EXCEPT ![Len(stack)] =
                [@ EXCEPT !.i = @ + 1,
                          !.tables[route] = Push(@, row.nodes[1])]],
            m, row.warns)

\* the end of a body: r is [threw, error, output, warns]
EndBody(r) ==
    IF r.threw THEN Throw(r.error, r.warns)
    ELSE /\ stack' = [stack EXCEPT ![Len(stack)].output = r.output,
                                   ![Len(stack)].phase = "write"]
         /\ warnings' = warnings + r.warns
         /\ UNCHANGED <<apiModel, documenterConfig, pc, folder, fsLog,
                        pluginLoader, onFinishedCalls, error, call, returned>>

NoRow == Returned(<<>>, 0)

\* lines 69-84: the plugin is loaded when a configuration was supplied
GenerateFiles ==
    /\ pc = "start"
    /\ pluginLoader' =
         IF documenterConfig.supplied
         THEN [loadCalls |-> pluginLoader.loadCalls + 1,
               markdownDocumenterFeature |-> documenterConfig.yieldsFeature]
         ELSE pluginLoader
    /\ pc' = "deleting"
    /\ UNCHANGED <<apiModel, documenterConfig, stack, folder, fsLog,
                   onFinishedCalls, warnings, error, call, returned>>

\* generateFiles going on to the copy without emptying the output folder
_deleteOldOutputFiles_Skipped ==
    /\ pc = "deleting"
    /\ pc' = "copying"
    /\ UNCHANGED <<apiModel, documenterConfig, stack, folder, fsLog,
                   pluginLoader, onFinishedCalls, warnings, error, call,
                   returned>>

\* line 87 and lines 800-803
_deleteOldOutputFiles ==
    /\ pc = "deleting"
    /\ folder' = [f \in {} |-> <<>>]
    /\ fsLog' = Append(fsLog, [op |-> "ensureEmptyFolder", path |-> "",
                               apiItem |-> <<>>, convertLineEndings |-> ""])
    /\ pc' = "copying"
    /\ UNCHANGED <<apiModel, documenterConfig, stack, pluginLoader,
                   onFinishedCalls, warnings, error, call, returned>>

\* lines 89-92
CopyStyles ==
    /\ pc = "copying"
    /\ folder' = ("styles.css" :> <<>>) @@ folder
    /\ fsLog' = Append(fsLog, [op |-> "copyFile", path |-> "styles.css",
                               apiItem |-> <<>>, convertLineEndings |-> ""])
    /\ pc' = "calling"
    /\ UNCHANGED <<apiModel, documenterConfig, stack, pluginLoader,
                   onFinishedCalls, warnings, error, call, returned>>

\* line 94
WriteModelPage ==
    /\ pc = "calling"
    /\ EnterPage(<<>>, <<>>, 0)

\* LoopMembers going through the members last to first
LoopMembers_Reversed ==
    IF TopKind = "Package"
    THEN [k \in 1..Len(members(Append(Top.apiItem, 1))) |->
            members(Append(Top.apiItem, 1))
                [Len(members(Append(Top.apiItem, 1))) + 1 - k]]
    ELSE [k \in 1..Len(members(Top.apiItem)) |->
            members(Top.apiItem)[Len(members(Top.apiItem)) + 1 - k]]

\* the members a page's body loops over (lines 323, 352-354, 445, 550)
LoopMembers ==
    IF TopKind = "Package" THEN members(Append(Top.apiItem, 1))
    ELSE members(Top.apiItem)

InLoop == InBody /\ Top.i <= Len(LoopMembers)
AfterLoop == InBody /\ Top.i > Len(LoopMembers)
Member == LoopMembers[Top.i]

\* lines 440-499: the cells of a row of each table of a class page
ClassCells(route) ==
    IF route \in {"constructors", "methods"}
    THEN <<"title", "modifiers", "description">>
    ELSE <<"title", "modifiers", "type", "description">>

\* lines 546-583
InterfaceCells(route) ==
    IF route = "methods" THEN <<"title", "description">>
    ELSE <<"title", "type", "description">>

\* lines 320-338
_writeModelTable ==
    \/ /\ InLoop /\ TopKind = "Model"
       /\ \E m \in {Member} :
             \E row \in {Row(m, <<"title", "description">>)} :
                VisitMember(m, ModelRoute(m), row)
    \/ /\ AfterLoop /\ TopKind = "Model"
       /\ \E r \in {Built(ModelSections(Top.output, Top.tables), 0)} : EndBody(r)

\* lines 343-434
_writePackageOrNamespaceTables ==
    \/ /\ InLoop /\ TopKind \in {"Package", "Namespace"}
       /\ \E m \in {Member} :
             \E row \in {Row(m, <<"title", "description">>)} :
                VisitMember(m, PackageOrNamespaceRoute(m), row)
    \/ /\ AfterLoop /\ TopKind \in {"Package", "Namespace"}
       /\ \E r \in {Built(PackageOrNamespaceSections(Top.output, Top.tables), 0)} : EndBody(r)

\* lines 439-520
_writeClassTables ==
    \/ /\ InLoop /\ TopKind = "Class"
       /\ \E m \in {Member} :
             \E row \in {IF ClassRoute(m) = "" THEN NoRow
                         ELSE Row(m, ClassCells(ClassRoute(m)))} :
                VisitMember(m, ClassRoute(m), row)
    \/ /\ AfterLoop /\ TopKind = "Class"
       /\ \E r \in {Built(ClassSections(Top.output, Top.tables), 0)} : EndBody(r)

\* lines 545-600
_writeInterfaceTables ==
    \/ /\ InLoop /\ TopKind = "Interface"
       /\ \E m \in {Member} :
             \E row \in {IF InterfaceRoute(m) = "" THEN NoRow
                         ELSE Row(m, InterfaceCells(InterfaceRoute(m)))} :
                VisitMember(m, InterfaceRoute(m), row)
    \/ /\ AfterLoop /\ TopKind = "Interface"
       /\ \E r \in {Built(InterfaceSections(Top.output, Top.tables), 0)} : EndBody(r)

\* lines 209-211 and 525-540
_writeEnumTables ==
    /\ InBody /\ TopKind = "Enum"
    /\ \E r \in {EnumBody(Top.output, Top.apiItem)} : EndBody(r)

\* lines 215-222 and 605-620; _writeThrowsSection adds nothing
_writeParameterTables ==
    /\ InBody
    /\ TopKind \in {"Constructor", "ConstructSignature", "Method",
                    "MethodSignature", "Function"}
    /\ \E r \in {ParameterBody(Top.output, Top.apiItem)} : EndBody(r)

\* lines 232-238: the kinds without a body
NoBody ==
    /\ InBody
    /\ TopKind \in {"Property", "PropertySignature", "TypeAlias", "Variable"}
    /\ \E r \in {Built(Top.output, 0)} : EndBody(r)

\* lines 248-256: the document of a page
PageContent(output) ==
    emit(<<"styles.css">>,
         << tag2("header", NodesV(<<
                tag3("div", "header-top", NodesV(<<
                    a("", "https://developers.symphony.com/", "header-logo") >>)),
                tag3("div", "header-bottom", NodesV(<<>>)) >>)),
            tag3("div", "main", NodesV(output)) >>)

\* lines 243-245
RemarksLast ==
    IF TopKind \in RemarksFirstKinds THEN Built(Top.output, 0)
    ELSE _writeRemarksSection(Top.output, Top.apiItem)

\* lines 247-260: r being the page with its remarks, the file is written and
\* the call returns
WriteFile(r, filename) ==
    IF r.threw THEN Throw(r.error, r.warns)
    ELSE /\ folder' = (filename :> PageContent(r.output)) @@ folder
         /\ fsLog' = Append(fsLog,
              [op |-> "writeFile", path |-> filename, apiItem |-> Top.apiItem,
               convertLineEndings |->
                   IF documenterConfig.supplied
                   THEN documenterConfig.newlineKind ELSE "CrLf"])
         /\ stack' = SubSeq(stack, 1, Len(stack) - 1)
         /\ warnings' = warnings + r.warns
         /\ UNCHANGED <<apiModel, documenterConfig, pc, pluginLoader,
                        onFinishedCalls, error, call, returned>>

\* lines 243-260
WritePageFile ==
    /\ pc = "traversing" /\ stack # <<>> /\ Top.phase = "write"
    /\ \E r \in {RemarksLast} :
          \E filename \in {_getFilenameForApiItem(Top.apiItem)} :
              WriteFile(r, filename)

\* Finish calling onFinished without looking for a feature
Finish_Unconditional ==
    /\ pc = "traversing" /\ stack = <<>>
    /\ onFinishedCalls' = onFinishedCalls + 1
    /\ pc' = "done"
    /\ UNCHANGED <<apiModel, documenterConfig, stack, folder, fsLog,
                   pluginLoader, warnings, error, call, returned>>

\* lines 96-98, after the model's page returned
Finish ==
    /\ pc = "traversing" /\ stack = <<>>
    /\ onFinishedCalls' = IF pluginLoader.markdownDocumenterFeature
                          THEN onFinishedCalls + 1 ELSE onFinishedCalls
    /\ pc' = "done"
    /\ UNCHANGED <<apiModel, documenterConfig, stack, folder, fsLog,
                   pluginLoader, warnings, error, call, returned>>

Next ==
    \/ GenerateFiles
    \/ _deleteOldOutputFiles
    \/ CopyStyles
    \/ WriteModelPage
    \/ _writeModelTable
    \/ _writePackageOrNamespaceTables
    \/ _writeClassTables
    \/ _writeInterfaceTables
    \/ _writeEnumTables
    \/ _writeParameterTables
    \/ NoBody
    \/ WritePageFile
    \/ Finish

Spec == Init /\ [][Next]_vars

\* generateFiles is synchronous: it runs on until it returns or throws
FairSpec == Spec /\ WF_vars(Next)

(***************************************************************************)
(* The helpers called on their own, with no generateFiles running:         *)
(* _createDocNodes on a sequence of doc nodes, and tag on its arguments.   *)
(***************************************************************************)
MaxDocNodes == 3       \* doc nodes of a sequence (helper calls)

\* one doc node of each kind without children; FencedCode is a kind
\* _createDocNodes has no case for
DocLeaves ==
    { PlainText("a"), PlainText("b"), SoftBreak, CodeSpan("c"),
      LinkTag("t", "u"), LinkTag("", "u"), LinkTag("t", ""), FencedCode("x") }

\* a sequence s of leaves: on its own, as the children of a paragraph, as
\* the children of a paragraph between two siblings, and as the children of
\* a paragraph inside a paragraph
DocNodeSeqs ==
    UNION { { s, <<Paragraph(s)>>,
              <<PlainText("a"), Paragraph(s), PlainText("b")>>,
              <<Paragraph(<<SoftBreak, Paragraph(s)>>)>> } :
            s \in SeqsOf(DocLeaves, 0, MaxDocNodes) }

CreateDocNodesCalls ==
    { [fn |-> "_createDocNodes", nodes |-> s] : s \in DocNodeSeqs }

TagTypes == {"div", "span", "td"}
ClassNames == {"modifiers", "ref"}
\* the content arguments: the empty and a non-empty string, the empty and a
\* non-empty HtmlNode[]
TagContents ==
    { StrV(""), StrV("x"), NodesV(<<>>), NodesV(<<tag1("br")>>) }

\* the calls of tag, each with the arguments JavaScript binds to arg1 and
\* arg2: tag(type), tag(type, content), tag(type, className, content) and
\* tag(type, className)
TagCalls ==
    { [fn |-> "tag", form |-> "type", type |-> ty, arg1 |-> Undefined,
       arg2 |-> Undefined] : ty \in TagTypes }
    \cup { [fn |-> "tag", form |-> "content", type |-> ty, arg1 |-> c,
            arg2 |-> Undefined] : ty \in TagTypes, c \in TagContents }
    \cup { [fn |-> "tag", form |-> "className, content", type |-> ty,
            arg1 |-> StrV(cn), arg2 |-> c] :
             ty \in TagTypes, cn \in ClassNames, c \in TagContents }
    \cup { [fn |-> "tag", form |-> "className", type |-> ty,
            arg1 |-> StrV(cn), arg2 |-> Undefined] :
             ty \in TagTypes, cn \in ClassNames }

CallInit ==
    /\ apiModel = BuildModel(<<>>)
    /\ documenterConfig = NoConfig
    /\ pc = ""
    /\ stack = <<>>
    /\ folder = [f \in {} |-> <<>>]
    /\ fsLog = <<>>
    /\ pluginLoader = [loadCalls |-> 0, markdownDocumenterFeature |-> FALSE]
    /\ onFinishedCalls = 0
    /\ warnings = 0
    /\ error = ""
    /\ call \in CreateDocNodesCalls \cup TagCalls
    /\ returned = NoCall

\* lines 737-763: this._createDocNodes(nodes) returns or throws
Call_createDocNodes ==
    /\ call.fn = "_createDocNodes"
    /\ returned = NoCall
    /\ returned' = _createDocNodes(call.nodes)
    /\ UNCHANGED <<apiModel, documenterConfig, pc, stack, folder, fsLog,
                   pluginLoader, onFinishedCalls, warnings, error, call>>

\* HtmlEmitter.ts lines 27-33: tag(type, arg1, arg2) returns
Call_tag ==
    /\ call.fn = "tag"
    /\ returned = NoCall
    /\ returned' = tag(call.type, call.arg1, call.arg2)
    /\ UNCHANGED <<apiModel, documenterConfig, pc, stack, folder, fsLog,
                   pluginLoader, onFinishedCalls, warnings, error, call>>

CallNext == Call_createDocNodes \/ Call_tag

CallSpec == CallInit /\ [][CallNext]_vars

(***************************************************************************)
(* What the properties below speak of.                                     *)
(***************************************************************************)
\* the FileSystem.writeFile calls made so far
Writes == {i \in 1..Len(fsLog) : fsLog[i].op = "writeFile"}

\* the .html files of the output folder
HtmlFiles == DOMAIN folder \ {"styles.css"}

\* the `output` array of the page in file f
PageOutput(f) == folder[f][2].content.n[2].content.n

\* the text of a node ("" for a node without string content)
TextOf(node) == node.content.s

HasClass(node, className) ==
    "class" \in DOMAIN node.attributes /\ node.attributes["class"].s = className

\* the members the body of page p loops over
MembersOf(p) ==
    IF Item(p).kind = "Package" THEN members(Append(p, 1)) ELSE members(p)

\* the table the body of page p routes member m into, "" if none
RouteOf(p, m) ==
    CASE Item(p).kind = "Model" -> ModelRoute(m)
      [] Item(p).kind \in {"Package", "Namespace"} -> PackageOrNamespaceRoute(m)
      [] Item(p).kind = "Class" -> ClassRoute(m)
      [] Item(p).kind = "Interface" -> InterfaceRoute(m)
      [] OTHER -> ""

RoutedMembers(p) ==
    {MembersOf(p)[k] : k \in {j \in 1..Len(MembersOf(p)) :
                                RouteOf(p, MembersOf(p)[j]) # ""}}

\* the items that get a page: the model and, level by level, the routed
\* members of the items that get a page
RECURSIVE PagedBelow(_)
PagedBelow(p) == {p} \cup UNION {PagedBelow(m) : m \in RoutedMembers(p)}

PagedItems == PagedBelow(<<>>)

\* the levels of p's hierarchy that are neither the model nor an entry point
RealLevels(p) ==
    SelectSeq(getHierarchy(p),
              LAMBDA q : Item(q).kind \notin {"Model", "EntryPoint"})

\* the strings of a sequence, one after the other
RECURSIVE ConcatAll(_)
ConcatAll(parts) ==
    IF parts = <<>> THEN "" ELSE Head(parts) \o ConcatAll(Tail(parts))

(***************************************************************************)
(* C1.  Filename injectivity: two distinct items that get a page never     *)
(* get the same file name.                                                 *)
(***************************************************************************)
\* C1: any two pages written for distinct API items were written to distinct
\* file names
C1_FilenameInjective ==
    \A i \in Writes : \A j \in Writes :
        fsLog[i].apiItem # fsLog[j].apiItem => fsLog[i].path # fsLog[j].path

(***************************************************************************)
(* C2.  The file names of a package-level function and of its overloads.   *)
(***************************************************************************)
\* the written pages of functions that are members of a package entry point
PackageFunctionWrites ==
    {i \in Writes : /\ Len(fsLog[i].apiItem) = 3
                    /\ Item(fsLog[i].apiItem).kind = "Function"}

\* "<Package>.<name><suffix>.html" for the function written by call i
FunctionFile(i, suffix) ==
    Str(getSafeFilenameForName(
            getUnscopedName(Item(SubSeq(fsLog[i].apiItem, 1, 1)).displayName)))
        \o "." \o Str(getSafeFilenameForName(Item(fsLog[i].apiItem).displayName))
        \o suffix \o ".html"

\* C2 as claimed: a package-level function with overload index 1 is written
\* to <Package>.<name>.html and the one with overload index 2 to
\* <Package>.<name>_2.html
C2_OverloadFilenames ==
    \A i \in PackageFunctionWrites :
        /\ Item(fsLog[i].apiItem).overloadIndex = 1
              => fsLog[i].path = FunctionFile(i, "")
        /\ Item(fsLog[i].apiItem).overloadIndex = 2
              => fsLog[i].path = FunctionFile(i, "_2")

\* C2 as amended: a package-level function with overload index 1 is written
\* to <Package>.<name>.html and the one with overload index 2 to
\* <Package>.<name>_1.html
C2_OverloadFilenamesAmended ==
    \A i \in PackageFunctionWrites :
        /\ Item(fsLog[i].apiItem).overloadIndex = 1
              => fsLog[i].path = FunctionFile(i, "")
        /\ Item(fsLog[i].apiItem).overloadIndex = 2
              => fsLog[i].path = FunctionFile(i, "_1")

\* both overloads of a function foo have been written
C2_Witness ==
    /\ \E i \in PackageFunctionWrites :
          /\ Item(fsLog[i].apiItem).overloadIndex = 1
          /\ Item(fsLog[i].apiItem).displayName = N_foo
    /\ \E i \in PackageFunctionWrites :
          /\ Item(fsLog[i].apiItem).overloadIndex = 2
          /\ Item(fsLog[i].apiItem).displayName = N_foo

(***************************************************************************)
(* C3.  The derivation of a file name from the item's hierarchy.           *)
(***************************************************************************)
\* the segment a level below the package adds to the file name
Segment(q) ==
    "." \o Str(getSafeFilenameForName(Item(q).displayName))
        \o (IF Item(q).kind \in ParameterListKinds /\ Item(q).overloadIndex > 1
            THEN "_" \o Str(ToDecimal(Item(q).overloadIndex - 1)) ELSE "")

ExpectedFilename(p) ==
    IF Item(p).kind = "Model" THEN "index.html"
    ELSE Str(getSafeFilenameForName(
                getUnscopedName(Item(RealLevels(p)[1]).displayName)))
            \o ConcatAll([k \in 1..(Len(RealLevels(p)) - 1) |->
                             Segment(RealLevels(p)[k + 1])])
            \o ".html"

\* C3: every page is written to index.html for the model and otherwise to
\* the safe unscoped package name, then "." and the safe display name of each
\* level below the package (with "_<overloadIndex - 1>" for a level with a
\* parameter list and overload index above 1), then ".html"
C3_FilenameDerivation ==
    \A i \in Writes : fsLog[i].path = ExpectedFilename(fsLog[i].apiItem)

\* a run has completed that wrote the model's page and, below a class or an
\* interface, the page of an overload with index above 1
C3_Witness ==
    /\ pc = "done"
    /\ \E i \in Writes : fsLog[i].apiItem = <<>>
    /\ \E i \in Writes :
          /\ Item(fsLog[i].apiItem).kind \in ParameterListKinds
          /\ Item(fsLog[i].apiItem).overloadIndex > 1
          /\ Len(fsLog[i].apiItem) > 3

(***************************************************************************)
(* C4.  The breadcrumb of a page.                                          *)
(***************************************************************************)
\* write i is the latest write to its file: the file holds the page it wrote
Current(i) == \A j \in Writes : fsLog[j].path = fsLog[i].path => j <= i

PageOfWrite(i) == PageOutput(fsLog[i].path)

\* the breadcrumb of a page: its leading nodes of class "breadcrumb"
Breadcrumb(output) ==
    SubSeq(output, 1,
           Cardinality({k \in 1..Len(output) :
               \A j \in 1..k : HasClass(output[j], "breadcrumb")}))

BreadcrumbLinks(output) ==
    SelectSeq(Breadcrumb(output), LAMBDA node : node.type = "a")

Texts(nodes) == [k \in 1..Len(nodes) |-> TextOf(nodes[k])]
Hrefs(nodes) == [k \in 1..Len(nodes) |-> nodes[k].attributes["href"].s]

\* p is a method of a class of a namespace of a package
IsPackageNamespaceClassMethod(p) ==
    [k \in 1..(Len(p) + 1) |-> Item(getHierarchy(p)[k]).kind]
        = <<"Model", "Package", "EntryPoint", "Namespace", "Class", "Method">>

DisplayNames(levels) == [k \in 1..Len(levels) |-> Str(Item(levels[k]).displayName)]

\* the breadcrumb of every page is the link Home followed, for each level of
\* the item's hierarchy that is neither the model nor an entry point, by the
\* separator " / " and a link to that level: no link stands for the model or
\* for an entry point
NoModelOrEntryPointLevel(i) ==
    /\ Texts(Breadcrumb(PageOfWrite(i)))
         = [k \in 1..(2 * Len(RealLevels(fsLog[i].apiItem)) + 1) |->
              IF k = 1 THEN "Home"
              ELSE IF k % 2 = 0 THEN " / "
              ELSE Str(Item(RealLevels(fsLog[i].apiItem)[(k - 1) \div 2]).displayName)]
    /\ Hrefs(BreadcrumbLinks(PageOfWrite(i)))
         = <<"./index.html">>
             \o [k \in 1..Len(RealLevels(fsLog[i].apiItem)) |->
                   "./" \o ExpectedFilename(RealLevels(fsLog[i].apiItem)[k])]

\* C4 as claimed: the breadcrumb of a method of a class of a namespace of a
\* package has exactly the links Home, Namespace, Class, Method, and no
\* breadcrumb has a link for the model or an entry point
C4_Breadcrumb ==
    \A i \in Writes : Current(i) =>
        /\ IsPackageNamespaceClassMethod(fsLog[i].apiItem) =>
             Texts(BreadcrumbLinks(PageOfWrite(i)))
               = <<"Home">> \o DisplayNames(SubSeq(getHierarchy(fsLog[i].apiItem), 4, 6))
        /\ NoModelOrEntryPointLevel(i)

\* C4 as amended: the breadcrumb of a method of a class of a namespace of a
\* package has exactly the links Home, Package, Namespace, Class, Method, in
\* that order and separated by " / ", and no breadcrumb has a link for the
\* model or an entry point
C4_BreadcrumbAmended ==
    \A i \in Writes : Current(i) =>
        /\ IsPackageNamespaceClassMethod(fsLog[i].apiItem) =>
             /\ Texts(BreadcrumbLinks(PageOfWrite(i)))
                  = <<"Home", Str(Item(SubSeq(fsLog[i].apiItem, 1, 1)).displayName)>>
                      \o DisplayNames(SubSeq(getHierarchy(fsLog[i].apiItem), 4, 6))
             /\ Len(Breadcrumb(PageOfWrite(i))) = 9
             /\ \A k \in 1..4 :
                   /\ Breadcrumb(PageOfWrite(i))[2 * k].type = "span"
                   /\ TextOf(Breadcrumb(PageOfWrite(i))[2 * k]) = " / "
        /\ NoModelOrEntryPointLevel(i)

\* the page of a method of a class of a namespace of a package is written
C4_Witness ==
    \E i \in Writes : /\ Current(i)
                      /\ IsPackageNamespaceClassMethod(fsLog[i].apiItem)

(***************************************************************************)
(* C5.  The member tables of a class page.                                 *)
(***************************************************************************)
\* the page has a section heading with this text
HasSection(output, heading) ==
    \E k \in 1..Len(output) :
        output[k].type = "h3" /\ TextOf(output[k]) = heading

\* the table after the section heading with this text
SectionTable(output, heading) ==
    output[(CHOOSE k \in 1..Len(output) :
                output[k].type = "h3" /\ TextOf(output[k]) = heading) + 1]

TablesOf(output) == {k \in 1..Len(output) : output[k].type = "table"}

ClassTables ==
    { <<"events", "Events">>, <<"constructors", "Constructors">>,
      <<"properties", "Properties">>, <<"methods", "Methods">> }

RoutedTo(p, route) == {m \in RoutedMembers(p) : RouteOf(p, m) = route}

\* C5: on every class page each of the four sections Events, Constructors,
\* Properties, Methods (heading and table) is present if and only if a
\* member of the class was routed into its table
C5_TableOmission ==
    \A i \in Writes : (Current(i) /\ Item(fsLog[i].apiItem).kind = "Class") =>
        /\ \A s \in ClassTables :
              HasSection(PageOfWrite(i), s[2])
                 <=> RoutedTo(fsLog[i].apiItem, s[1]) # {}
        /\ Cardinality(TablesOf(PageOfWrite(i)))
             = Cardinality({s \in ClassTables :
                               RoutedTo(fsLog[i].apiItem, s[1]) # {}})

(***************************************************************************)
(* C6.  Items of a kind without a heading or without a routing rule.       *)
(***************************************************************************)
\* the members passed over by the member loop of a page that was written
PassedOver ==
    UNION { {MembersOf(fsLog[i].apiItem)[k] :
               k \in {j \in 1..Len(MembersOf(fsLog[i].apiItem)) :
                        RouteOf(fsLog[i].apiItem,
                                MembersOf(fsLog[i].apiItem)[j]) = ""}}
            : i \in {j \in Writes :
                       Item(fsLog[j].apiItem).kind \in
                          {"Model", "Package", "Namespace", "Class", "Interface"}} }

\* C6: a run never completes having passed over a member of a model,
\* package entry point, namespace, class or interface whose kind has no
\* routing rule
C6_FatalOnUnknownKind == pc = "done" => PassedOver = {}

(***************************************************************************)
(* C7.  One package @scope/widgets, one class Widget, one method           *)
(* doThing(x: number): void.                                               *)
(***************************************************************************)
WidgetsModel == BuildModel(<<Package(N_scoped_widgets, <<WidgetClass>>)>>)

\* the rows of a table after its header
DataRows(t) == Tail(t.content.n)

\* the cells of a row
CellsOf(row) == row.content.n

\* the class page's Methods table has one data row, whose link goes to the
\* method's page, and the method page's Parameters table has one data row,
\* (x, number)
WidgetTables ==
    /\ HasSection(PageOutput("widgets.Widget.html"), "Methods")
    /\ Len(DataRows(SectionTable(PageOutput("widgets.Widget.html"), "Methods"))) = 1
    /\ CellsOf(DataRows(SectionTable(PageOutput("widgets.Widget.html"),
                                     "Methods"))[1])[1].content.n[1].type = "a"
    /\ CellsOf(DataRows(SectionTable(PageOutput("widgets.Widget.html"),
                                     "Methods"))[1])[1].content.n[1]
          .attributes["href"].s = "./widgets.Widget.doThing.html"
    /\ HasSection(PageOutput("widgets.Widget.doThing.html"), "Parameters")
    /\ Len(DataRows(SectionTable(PageOutput("widgets.Widget.doThing.html"),
                                 "Parameters"))) = 1
    /\ Texts(CellsOf(DataRows(SectionTable(
                PageOutput("widgets.Widget.doThing.html"), "Parameters"))[1]))
          = <<"x", "number">>

\* C7 as claimed: the run writes exactly the three files widgets.html,
\* widgets.Widget.html and widgets.Widget.doThing.html, with the two tables
C7_EndToEnd ==
    (apiModel = WidgetsModel /\ pc = "done") =>
        /\ HtmlFiles = {"widgets.html", "widgets.Widget.html",
                        "widgets.Widget.doThing.html"}
        /\ WidgetTables

\* C7 as amended: the run writes exactly the four files index.html,
\* widgets.html, widgets.Widget.html and widgets.Widget.doThing.html, with
\* the two tables
C7_EndToEndAmended ==
    (apiModel = WidgetsModel /\ pc = "done") =>
        /\ HtmlFiles = {"index.html", "widgets.html", "widgets.Widget.html",
                        "widgets.Widget.doThing.html"}
        /\ {fsLog[i].path : i \in Writes} = HtmlFiles
        /\ WidgetTables

\* the run on the widgets model has completed
C7_Witness == apiModel = WidgetsModel /\ pc = "done" /\ Cardinality(Writes) = 4

(***************************************************************************)
(* C8.  The files of a completed run.                                      *)
(***************************************************************************)
\* C8: after a completed run the .html files of the folder are one per item
\* that gets a page, each written exactly once, and no enum member has a
\* file
C8_OutputFileSet ==
    pc = "done" =>
        /\ Cardinality(HtmlFiles) = Cardinality(PagedItems)
        /\ \A f \in HtmlFiles :
              Cardinality({i \in Writes : fsLog[i].path = f}) = 1
        /\ \A i \in Writes : Item(fsLog[i].apiItem).kind # "EnumMember"

(***************************************************************************)
(* C9.  The folder is emptied, then the stylesheet is copied, then the     *)
(* pages are written.                                                      *)
(***************************************************************************)
Calls(op) == {i \in 1..Len(fsLog) : fsLog[i].op = op}

\* C9: every page write comes after the emptying of the folder and after
\* the one copy of the stylesheet, which comes after the emptying; nothing
\* empties the folder after a write; a run that ended copied the stylesheet
\* exactly once; once a page is written the folder holds no file of an
\* earlier run
C9_ClearCopyWrite ==
    /\ \A w \in Writes :
          \E e \in Calls("ensureEmptyFolder") : \E c \in Calls("copyFile") :
              e < c /\ c < w
    /\ \A e \in Calls("ensureEmptyFolder") : \A w \in Writes : e < w
    /\ \A c \in Calls("copyFile") :
          \E e \in Calls("ensureEmptyFolder") : e < c
    /\ Cardinality(Calls("copyFile")) <= 1
    /\ pc \in {"done", "failed"} => Cardinality(Calls("copyFile")) = 1
    /\ Writes # {} => StaleFile \notin DOMAIN folder

\* a run has completed that wrote several pages
C9_Witness == pc = "done" /\ Cardinality(Writes) >= 3

(***************************************************************************)
(* C10.  The plugin hook.                                                  *)
(***************************************************************************)
\* every item that gets a page has had its page written
AllPagesWritten == PagedItems = {fsLog[i].apiItem : i \in Writes}

\* what holds of the hook in every state: without a configuration the
\* loader is never invoked and onFinished never called; onFinished is called
\* at most once, and then every page, index.html last, has been written and
\* generateFiles is past the traversal; a run that completed with a feature
\* loaded has called it
HookSafety ==
    /\ ~documenterConfig.supplied =>
          pluginLoader.loadCalls = 0 /\ onFinishedCalls = 0
    /\ onFinishedCalls <= 1
    /\ onFinishedCalls = 1 =>
          /\ pc = "done" /\ stack = <<>>
          /\ AllPagesWritten
          /\ fsLog[Len(fsLog)].op = "writeFile"
          /\ fsLog[Len(fsLog)].path = "index.html"
    /\ (pc = "done" /\ documenterConfig.supplied
           /\ documenterConfig.yieldsFeature) => onFinishedCalls = 1

\* C10: the safety part in every state, and a run with a configuration whose
\* plugin yields a feature eventually either raises a fatal error or has
\* called onFinished exactly once
C10_PluginHook ==
    /\ []HookSafety
    /\ (documenterConfig.supplied /\ documenterConfig.yieldsFeature)
          ~> (pc = "failed" \/ onFinishedCalls = 1)

\* a run with a feature has completed and called onFinished
C10_Witness ==
    /\ pc = "done" /\ onFinishedCalls = 1 /\ Cardinality(Writes) >= 3
    /\ pluginLoader.loadCalls = 1

(***************************************************************************)
(* C11.  _createDocNodes: one HtmlNode per doc node that is not a soft     *)
(* break.                                                                  *)
(***************************************************************************)
SupportedDocNodeKinds ==
    {"Paragraph", "SoftBreak", "CodeSpan", "LinkTag", "PlainText"}

RECURSIVE AllSupported(_)
AllSupported(nodes) ==
    \A i \in 1..Len(nodes) :
        /\ nodes[i].kind \in SupportedDocNodeKinds
        /\ AllSupported(nodes[i].nodes)

\* the doc nodes of a sequence that are not soft breaks, in order
RECURSIVE NonSoftBreak(_)
NonSoftBreak(nodes) ==
    IF nodes = <<>> THEN <<>>
    ELSE (IF Head(nodes).kind = "SoftBreak" THEN <<>> ELSE <<Head(nodes)>>)
            \o NonSoftBreak(Tail(nodes))

ElementOf(kind) ==
    CASE kind = "Paragraph" -> "p"
      [] kind = "CodeSpan" -> "code"
      [] kind = "LinkTag" -> "a"
      [] kind = "PlainText" -> "span"

\* html holds one node for each doc node of `kept`, in order: the element
\* of its kind with its text, and for a paragraph the same of its children
RECURSIVE OnePerNode(_, _)
OnePerNode(kept, html) ==
    /\ Len(html) = Len(kept)
    /\ \A k \in 1..Len(kept) :
          /\ html[k].type = ElementOf(kept[k].kind)
          /\ kept[k].kind \in {"PlainText", "CodeSpan"} =>
                html[k].content = StrV(kept[k].text)
          /\ kept[k].kind = "Paragraph" =>
                /\ html[k].content.t = "nodes"
                /\ OnePerNode(NonSoftBreak(kept[k].nodes), html[k].content.n)

\* C11: _createDocNodes called on doc nodes of supported kinds returns
\* exactly one HtmlNode for each node that is not a SoftBreak, in input
\* order and with nothing in the place of a SoftBreak, and so for the
\* children of every Paragraph
C11_DocNodeFiltering ==
    (call.fn = "_createDocNodes" /\ returned # NoCall
        /\ AllSupported(call.nodes)) =>
        /\ ~returned.threw
        /\ OnePerNode(NonSoftBreak(call.nodes), returned.nodes)

\* the call on a SoftBreak between two PlainText nodes has returned two nodes
C11_Witness ==
    /\ call.fn = "_createDocNodes"
    /\ call.nodes = <<PlainText("a"), SoftBreak, PlainText("b")>>
    /\ returned # NoCall
    /\ Len(returned.nodes) = 2

(***************************************************************************)
(* C12.  The shapes tag builds.                                            *)
(***************************************************************************)
HasNoClass(node) == node.attributes = NoAttributes

HasClassName(node, className) ==
    /\ DOMAIN node.attributes = {"class"}
    /\ node.attributes["class"] = className

\* C12: tag(type) returns a node without content and without class;
\* tag(type, content) a node with that content and without class; and
\* whenever a class name is passed, with any content or with none, the node
\* has that class and the content passed (none when it was left out)
C12_TagShapes ==
    (call.fn = "tag" /\ returned # NoCall) =>
        /\ returned.type = call.type
        /\ call.form = "type" =>
              returned.content = Undefined /\ HasNoClass(returned)
        /\ call.form = "content" =>
              returned.content = call.arg1 /\ HasNoClass(returned)
        /\ call.form = "className, content" =>
              returned.content = call.arg2 /\ HasClassName(returned, call.arg1)
        /\ call.form = "className" =>
              returned.content = Undefined /\ HasClassName(returned, call.arg1)

(***************************************************************************)
(* C13.  The routing of the members of a class.                            *)
(***************************************************************************)
\* the table a member of a class belongs to, "" for the other kinds
TableOfClassMember(m) ==
    CASE Item(m).kind = "Property" /\ Item(m).isEventProperty -> "events"
      [] Item(m).kind = "Property" -> "properties"
      [] Item(m).kind = "Constructor" -> "constructors"
      [] Item(m).kind = "Method" -> "methods"
      [] OTHER -> ""

\* the members the loop of frame f has been through, in declaration order
Visited(f) == SubSeq(members(f.apiItem), 1, f.i - 1)

VisitedInto(f, route) ==
    SelectSeq(Visited(f), LAMBDA m : TableOfClassMember(m) = route)

\* the link of the title cell of a table row
TitleLink(row) == CellsOf(row)[1].content.n[1]

\* the calls of _writeApiItemPage for item m: those that wrote their file
\* and those still active
Invocations(m) ==
    Cardinality({i \in Writes : fsLog[i].apiItem = m})
        + Cardinality({n \in 1..Len(stack) : stack[n].apiItem = m})

ClassFrames ==
    {n \in 1..Len(stack) : Item(stack[n].apiItem).kind = "Class"}

DataRowCount(f) ==
    Len(DataRows(f.tables["events"])) + Len(DataRows(f.tables["constructors"]))
        + Len(DataRows(f.tables["properties"]))
        + Len(DataRows(f.tables["methods"]))

\* C13: while a class page is built, each of its four tables holds one row
\* for every member gone through that belongs to it, in declaration order
\* (the row's title links to the member's page), the data rows are as many
\* as the routed members gone through, and _writeApiItemPage has been called
\* once for each of them and for no other member; once the class page is
\* written, it has been called once for each Constructor, Method and
\* Property of the class
C13_ClassRouting ==
    /\ \A n \in ClassFrames :
          /\ \A route \in {"events", "constructors", "properties", "methods"} :
                [j \in 1..Len(DataRows(stack[n].tables[route])) |->
                    TitleLink(DataRows(stack[n].tables[route])[j]).attributes["href"].s]
                  = [j \in 1..Len(VisitedInto(stack[n], route)) |->
                       "./" \o ExpectedFilename(VisitedInto(stack[n], route)[j])]
          /\ DataRowCount(stack[n])
                = Len(SelectSeq(Visited(stack[n]),
                                LAMBDA m : TableOfClassMember(m) # ""))
          /\ \A j \in 1..Len(members(stack[n].apiItem)) :
                Invocations(members(stack[n].apiItem)[j])
                  = IF j < stack[n].i
                       /\ TableOfClassMember(members(stack[n].apiItem)[j]) # ""
                    THEN 1 ELSE 0
    /\ \A i \in Writes : Item(fsLog[i].apiItem).kind = "Class" =>
          \A j \in 1..Len(members(fsLog[i].apiItem)) :
              Invocations(members(fsLog[i].apiItem)[j])
                = IF TableOfClassMember(members(fsLog[i].apiItem)[j]) # ""
                  THEN 1 ELSE 0

\* the loop of a class is through an event property and a method
C13_Witness ==
    \E n \in ClassFrames :
        /\ stack[n].phase = "write"
        /\ Len(DataRows(stack[n].tables["events"])) = 1
        /\ Len(DataRows(stack[n].tables["methods"])) = 1

(***************************************************************************)
(* C14.  The order of the page writes.                                     *)
(***************************************************************************)
IsPrefix(q, p) == Len(q) <= Len(p) /\ SubSeq(p, 1, Len(q)) = q

\* p comes before q in the depth-first order that puts an item after its
\* descendants and siblings in declaration order: p is below q, or at the
\* first level where they part p is in the earlier member
WrittenBefore(p, q) ==
    \/ p # q /\ IsPrefix(q, p)
    \/ \E k \in 1..Len(p) :
          /\ k <= Len(q)
          /\ SubSeq(p, 1, k - 1) = SubSeq(q, 1, k - 1)
          /\ p[k] < q[k]

\* C14: the active calls of _writeApiItemPage are a chain from the model
\* down, each the page of a member of the one before; the files are written
\* in depth-first order, members in declaration order and an item after all
\* of its descendants that get a page; and in a completed run the last file
\* written is index.html, the page of the model
C14_WriteOrder ==
    /\ \A n \in 1..Len(stack) :
          IF n = 1 THEN stack[n].apiItem = <<>>
          ELSE \E k \in 1..Len(MembersOf(stack[n - 1].apiItem)) :
                  /\ stack[n].apiItem = MembersOf(stack[n - 1].apiItem)[k]
                  /\ k = stack[n - 1].i - 1
    /\ \A i \in Writes : \A j \in Writes :
          i < j => WrittenBefore(fsLog[i].apiItem, fsLog[j].apiItem)
    /\ \A i \in Writes : \A d \in PagedBelow(fsLog[i].apiItem) :
          \E j \in Writes : j <= i /\ fsLog[j].apiItem = d
    /\ pc = "done" =>
          /\ fsLog[Len(fsLog)].op = "writeFile"
          /\ fsLog[Len(fsLog)].apiItem = <<>>
          /\ fsLog[Len(fsLog)].path = "index.html"

\* a run has completed that wrote the pages of two members of a container
\* inside a package
C14_Witness ==
    /\ pc = "done"
    /\ \E i \in Writes : \E j \in Writes :
          /\ i < j
          /\ Len(fsLog[i].apiItem) = 4 /\ Len(fsLog[j].apiItem) = 4

(***************************************************************************)
(* C15.  An Error ends the run; a code-destination link only warns.        *)
(***************************************************************************)
\* the doc comment c has a doc node of an unsupported kind in a section
\* that gets rendered
UnsupportedSummary(c) == c.present /\ ~AllSupported(c.summary)
UnsupportedRemarks(c) == c.present /\ c.hasRemarks /\ ~AllSupported(c.remarks)

\* the members the body of page p builds a table row for
RowMembers(p) ==
    IF Item(p).kind \in {"Model", "Package", "Namespace"}
    THEN {MembersOf(p)[k] : k \in 1..Len(MembersOf(p))}
    ELSE IF Item(p).kind = "Enum"
    THEN {members(p)[k] : k \in 1..Len(members(p))}
    ELSE RoutedMembers(p)

\* generating the page of p hits an unsupported item kind or doc node kind:
\* in p itself, in the row of a member, or in the page of a routed member
RECURSIVE HitsUnsupported(_)
HitsUnsupported(p) ==
    \/ Item(p).kind \notin SupportedKinds
    \/ UnsupportedSummary(Item(p).tsdocComment)
    \/ UnsupportedRemarks(Item(p).tsdocComment)
    \/ \E m \in RowMembers(p) : UnsupportedSummary(Item(m).tsdocComment)
    \/ \E m \in RoutedMembers(p) : HitsUnsupported(m)

RECURSIVE HasCodeDestination(_)
HasCodeDestination(nodes) ==
    \E k \in 1..Len(nodes) :
        \/ nodes[k].kind = "LinkTag" /\ nodes[k].urlDestination = ""
        \/ HasCodeDestination(nodes[k].nodes)

\* some node of html, at any depth, is a link to "missing-link"
RECURSIVE HasMissingLink(_)
HasMissingLink(html) ==
    \E k \in 1..Len(html) :
        \/ /\ html[k].type = "a"
           /\ html[k].attributes["href"].s = "missing-link"
        \/ html[k].content.t = "nodes" /\ HasMissingLink(html[k].content.n)

\* no file is ever written for an item whose page hits an unsupported kind
\* (so none for its ancestors); a run that failed hit one, holds the Error,
\* has no active call left and never called onFinished; the page of an item
\* whose summary has a code-destination link is written, with a warning
\* logged and a link to "missing-link" in its summary
ErrorSafety ==
    /\ \A i \in Writes : ~HitsUnsupported(fsLog[i].apiItem)
    /\ pc = "failed" =>
          /\ HitsUnsupported(<<>>)
          /\ error \in {UnsupportedItemKind, UnsupportedDocNodeKind}
          /\ stack = <<>>
          /\ onFinishedCalls = 0
          /\ \A i \in Writes : fsLog[i].path # "index.html"
    /\ pc = "done" =>
          \A p \in PagedItems : \E i \in Writes : fsLog[i].apiItem = p
    /\ \A i \in Writes :
          (/\ Current(i)
           /\ Item(fsLog[i].apiItem).tsdocComment.present
           /\ HasCodeDestination(Item(fsLog[i].apiItem).tsdocComment.summary)) =>
              /\ warnings >= 1
              /\ \E k \in 1..Len(PageOfWrite(i)) :
                    /\ HasClass(PageOfWrite(i)[k], "summary")
                    /\ HasMissingLink(PageOfWrite(i)[k].content.n)

\* C15: ErrorSafety in every state, and the Error is caught nowhere: the
\* step that raises it writes no file, and no step follows it
C15_FatalErrorPropagation ==
    /\ []ErrorSafety
    /\ [][/\ pc # "failed"
          /\ pc' = "failed" => (fsLog' = fsLog /\ folder' = folder)]_vars

\* a run has failed on an unsupported doc node after the page of an earlier
\* member of the package was written, a later member being left unvisited
C15_Witness ==
    /\ pc = "failed"
    /\ error = UnsupportedDocNodeKind
    /\ Cardinality(Writes) >= 1
    /\ Len(MembersOf(<<1>>)) = 3
    /\ \A i \in Writes : fsLog[i].apiItem # <<1, 1, 3>>

(***************************************************************************)
(* C16.  The place of the Remarks section in a page.                       *)
(***************************************************************************)
\* where the nodes of class className are in a page
NodesOfClass(output, className) ==
    {k \in 1..Len(output) : HasClass(output[k], className)}

\* the Remarks headings of a page
RemarksAt(output) == NodesOfClass(output, "remarks")

\* the breadcrumb, the heading, the summary and the signature of a page
HeadAt(output) ==
    NodesOfClass(output, "breadcrumb") \cup NodesOfClass(output, "page-header")
        \cup NodesOfClass(output, "summary")
        \cup NodesOfClass(output, "signature-heading")
        \cup NodesOfClass(output, "signature")

\* the section headings and tables of the body of a page
BodyAt(output) ==
    NodesOfClass(output, "section-heading") \cup TablesOf(output)

ContainerLikeKinds == {"Class", "Interface", "Namespace", "Package"}

\* C16: every page has at most one Remarks section, and has one exactly when
\* its item has a doc comment with a remarks block; the section comes after
\* the summary and the signature; on the page of a Class, Interface,
\* Namespace or Package it comes before every section heading and table of
\* the body, on the page of any other kind after all of them
C16_SectionOrder ==
    \A i \in Writes : Current(i) =>
        /\ Cardinality(RemarksAt(PageOfWrite(i))) <= 1
        /\ RemarksAt(PageOfWrite(i)) # {} <=>
              /\ Item(fsLog[i].apiItem).tsdocComment.present
              /\ Item(fsLog[i].apiItem).tsdocComment.hasRemarks
        /\ \A k \in RemarksAt(PageOfWrite(i)) :
              /\ \A h \in HeadAt(PageOfWrite(i)) : h < k
              /\ \A b \in BodyAt(PageOfWrite(i)) :
                    IF Item(fsLog[i].apiItem).kind \in ContainerLikeKinds
                    THEN k < b ELSE b < k

\* the page of a function with a Parameters table and remarks and the page
\* of a namespace with a member table and remarks are written
C16_Witness ==
    /\ \E i \in Writes :
          /\ Current(i) /\ Item(fsLog[i].apiItem).kind = "Function"
          /\ RemarksAt(PageOfWrite(i)) # {}
          /\ BodyAt(PageOfWrite(i)) # {}
    /\ \E i \in Writes :
          /\ Current(i) /\ Item(fsLog[i].apiItem).kind = "Namespace"
          /\ RemarksAt(PageOfWrite(i)) # {}
          /\ BodyAt(PageOfWrite(i)) # {}

====
